---- MODULE Spec2Model ----
(***************************************************************************)
(* A model of tolvera's named-state runtime (src/src/tolvera/state.py):    *)
(* the registry StateDict and the block State, with the host mirror        *)
(* (NpNdarrayDict), the device field (a taichi struct field), the mapping  *)
(* layer (tv.iml) and the routing layer (tv.osc) as far as state.py uses   *)
(* them.                                                                   *)
(*                                                                         *)
(* Numbers held by a field or a vector are written in units of one half:   *)
(* 0, 1, 2, 3 stand for 0.0, 0.5, 1.0, 1.5.  An i32 attribute holds whole  *)
(* numbers only (even values); a vector is a list of floats.               *)
(***************************************************************************)
EXTENDS Integers, Sequences, FiniteSets, TLC

\* Largest shape (number of struct instances) of a declared block.
MaxShape == 2
\* Largest number a cell or a vector element holds (in halves).
MaxVal == 2
\* Largest integer a caller assigns to the reserved name 'size'.
MaxInt == 1
\* Most simulation-step writes to a device field between two syncs.
MaxSimWrites == 1

Val == 0..MaxVal

Min2(a, b) == IF a < b THEN a ELSE b

RECURSIVE SumSeq(_)
SumSeq(s) == IF s = <<>> THEN 0 ELSE Head(s) + SumSeq(Tail(s))

RECURSIVE Flatten(_)
Flatten(ss) == IF ss = <<>> THEN <<>> ELSE Head(ss) \o Flatten(Tail(ss))

\* Faulty variant: the chunk is always taken from the start of the vector.
PySlice_FromStart(s, a, b) == SubSeq(s, 1, Min2(b - a, Len(s)))

\* s[a+1 .. b] with Python's list-slice clamping: vec[a:b].
PySlice(s, a, b) == SubSeq(s, a + 1, Min2(b, Len(s)))

(***************************************************************************)
(* Schemas: state: dict[str, tuple[DataType, Any, Any]], an ordered dict,  *)
(* here a sequence of [k, ty, min, max].                                   *)
(***************************************************************************)
SchemaX == << [k |-> "x", ty |-> "f32", min |-> 0, max |-> 1] >>
SchemaXY == << [k |-> "x", ty |-> "i32", min |-> 0, max |-> 2],
               [k |-> "y", ty |-> "f32", min |-> 1, max |-> 2] >>
SchemaBad == << [k |-> "x", ty |-> "str", min |-> 0, max |-> 1] >>

Keys(dict) == {dict[i].k : i \in 1..Len(dict)}
AttrOf(dict, key) == CHOOSE a \in {dict[i] : i \in 1..Len(dict)} : a.k = key

\* The values a cell of element type ty can hold.
TyVals(ty) == IF ty = "i32" THEN {v \in Val : v % 2 = 0} ELSE Val
\* numpy/taichi conversion of a float to the element type (int: truncation).
Cast(ty, v) == IF ty = "i32" THEN v - (v % 2) ELSE v

\* Every content a field (or a host mirror) of this schema and shape can have.
Fields(dict, n) == {f \in [Keys(dict) -> [1..n -> Val]] :
                      \A key \in Keys(dict) : \A i \in 1..n :
                        f[key][i] \in TyVals(AttrOf(dict, key).ty)}
ZeroField(dict, n) == [key \in Keys(dict) |-> [i \in 1..n |-> 0]]

(***************************************************************************)
(* NpNdarrayDict, the host mirror (tolvera/npndarray_dict.py).             *)
(***************************************************************************)
\* TiNpTypeMap.get(titype): the numpy type, or "None".
TiNpTypeMap(ty) == CASE ty = "i32" -> "int32"
                     [] ty = "f32" -> "float32"
                     [] OTHER -> "None"

\* NpNdarrayDict.size: one scalar per attribute and instance.
ND_size(dict, n) == Len(dict) * n
ND_attr_size(n) == n

\* NpNdarrayDict.randomise(): any values within each attribute's [min, max].
ND_randomise(dict, n) ==
  {f \in Fields(dict, n) :
     \A key \in Keys(dict) : \A i \in 1..n :
       /\ f[key][i] >= AttrOf(dict, key).min
       /\ f[key][i] <= AttrOf(dict, key).max}

\* attr_to_vec / attr_slice_to_vec: one attribute's column, instances a+1..b.
ND_attr_slice_to_vec(data, key, a, b) == [i \in 1..(b - a) |-> data[key][a + i]]
ND_attr_to_vec(data, n, key) == ND_attr_slice_to_vec(data, key, 0, n)
\* slice_to_vec / to_vec: the attributes' columns in schema order.
ND_slice_to_vec(dict, data, a, b) ==
  Flatten([j \in 1..Len(dict) |-> ND_attr_slice_to_vec(data, dict[j].k, a, b)])
ND_to_vec(dict, n, data) == ND_slice_to_vec(dict, data, 0, n)

\* attr_slice_from_vec: fails on a wrong length before writing.
ND_attr_slice_from_vec(dict, data, key, a, b, vec) ==
  IF Len(vec) # b - a
    THEN [ok |-> FALSE, exc |-> "ValueError", data |-> data]
    ELSE [ok |-> TRUE, exc |-> "",
          data |-> [data EXCEPT ![key] =
                      [i \in DOMAIN data[key] |->
                         IF i > a /\ i <= b
                           THEN Cast(AttrOf(dict, key).ty, vec[i - a])
                           ELSE data[key][i]]]]
ND_attr_from_vec(dict, n, data, key, vec) ==
  ND_attr_slice_from_vec(dict, data, key, 0, n, vec)

\* slice_from_vec: chunk j of the vector goes to attribute j.
ND_slice_from_vec(dict, data, a, b, vec) ==
  IF Len(vec) # Len(dict) * (b - a)
    THEN [ok |-> FALSE, exc |-> "ValueError", data |-> data]
    ELSE [ok |-> TRUE, exc |-> "",
          data |-> [key \in DOMAIN data |->
                      LET j == CHOOSE jj \in 1..Len(dict) : dict[jj].k = key
                      IN [i \in DOMAIN data[key] |->
                            IF i > a /\ i <= b
                              THEN Cast(dict[j].ty, vec[(j - 1) * (b - a) + (i - a)])
                              ELSE data[key][i]]]]
ND_from_vec(dict, n, data, vec) == ND_slice_from_vec(dict, data, 0, n, vec)

(***************************************************************************)
(* State (state.py:69-305).  A State object is a record                    *)
(*   name, dict, shape, size, field (device), nddata (host mirror's data), *)
(*   iml_get, iml_set, osc_get, osc_set, setter_name, getter_name          *)
(* and simw, which counts the simulation-step writes since the last sync   *)
(* (model bookkeeping only, no field of the program).                      *)
(***************************************************************************)

\* Attributes a State instance has: the methods of class State and the
\* fields its constructor assigns.
StateAttrs ==
  {"setup_data", "create_struct_field", "create_npndarray_dict", "randomise",
   "setup_accessors", "handle_accessor_flags", "handle_get_set",
   "setup_iml_mapping", "add_iml_setters", "add_iml_getters",
   "setup_osc_mapping", "add_osc_setters", "add_osc_getters", "osc_getter",
   "add_iml_osc_setters", "add_iml_osc_getters", "serialize", "deserialize",
   "save", "load", "from_nddict", "to_nddict", "from_vec", "to_vec",
   "attr_from_vec", "attr_to_vec", "slice_from_vec", "slice_to_vec",
   "attr_slice_from_vec", "attr_slice_to_vec", "attr_size",
   "tv", "name", "dict", "shape", "struct", "field", "nddict", "size",
   "setter_name", "getter_name", "iml", "iml_get", "iml_set",
   "osc", "osc_get", "osc_set"}

\* Flags iml / osc: None, a string, or a tuple of strings.
FlagNone == [kind |-> "none", items |-> <<>>]
FlagStr(s) == [kind |-> "str", items |-> <<s>>]
FlagTuple(t) == [kind |-> "tuple", items |-> t]

\* handle_get_set(flag) -> (enabled, get, set)
handle_get_set(flag) ==
  LET enabled == flag.kind # "none"
      items == {flag.items[i] : i \in 1..Len(flag.items)}
  IN [enabled |-> enabled,
      get |-> IF enabled THEN "get" \in items ELSE FALSE,
      set |-> IF enabled THEN "set" \in items ELSE FALSE]

\* Faulty variant: to_nddict that does not pull the device field.
to_nddict_Skipped(st) == st

\* Faulty variant: from_nddict that does not push the host mirror.
from_nddict_Skipped(st) == st

\* to_nddict(): host mirror := device field.
to_nddict(st) == [st EXCEPT !.nddata = st.field, !.simw = 0]
\* from_nddict(): device field := host mirror.
from_nddict(st) == [st EXCEPT !.field = st.nddata, !.simw = 0]

\* Faulty variant: randomise that does not push the draw to the device.
State_randomise_NoPush(st, rnd) == [st EXCEPT !.nddata = rnd]

\* randomise(): nddict.randomise() drew rnd; push it to the device.
State_randomise(st, rnd) == from_nddict([st EXCEPT !.nddata = rnd])

\* add_iml_setters / add_iml_getters: iml.add_instance(name).
setup_iml_mapping(st) ==
  (IF st.iml_set THEN {st.setter_name} ELSE {})
    \cup (IF st.iml_get THEN {st.getter_name} ELSE {})

\* The registrations add_osc_setters makes, in order; each reads the
\* attributes `needs` of self before it calls the routing layer.
OscSetterStmts(st) ==
  LET name == st.setter_name
      R(nm, h, nidx, needs, attr) ==
        [name |-> nm, handler |-> h, nidx |-> nidx, needs |-> needs, attr |-> attr]
      PerAttr(key) ==
        << R(name \o "_" \o key \o "_idx", "set_attr_idx", 2, {"set_attr_idx"}, key),
           R(name \o "_" \o key \o "_row", "set_attr_row", 1,
             {"set_attr_row", "len_attr_row"}, key),
           R(name \o "_" \o key \o "_col", "set_attr_col", 1,
             {"set_attr_col", "len_attr_col"}, key),
           R(name \o "_" \o key \o "_all", "set_attr_all", 0,
             {"set_attr_all", "len_attr_all"}, key) >>
  IN << R(name \o "_randomise", "_randomise", 0, {"_randomise"}, ""),
        R(name \o "_idx", "set_state_idx_from_list", 2,
          {"set_state_idx_from_list", "len_state_idx"}, ""),
        R(name \o "_row", "set_state_row_from_list", 1,
          {"set_state_row_from_list", "len_state_row"}, ""),
        R(name \o "_col", "set_state_col_from_list", 1,
          {"set_state_col_from_list", "len_state_col"}, ""),
        R(name \o "_all", "set_state_all_from_list", 0,
          {"set_state_all_from_list", "len_state_all"}, "") >>
     \o Flatten([j \in 1..Len(st.dict) |-> PerAttr(st.dict[j].k)])

OscReg(s) == [name |-> s.name, handler |-> s.handler, nidx |-> s.nidx, attr |-> s.attr]

\* add_osc_setters: stops with AttributeError at the first statement that
\* reads an attribute State does not have.
add_osc_setters(st) ==
  LET stmts == OscSetterStmts(st)
      bad == {i \in 1..Len(stmts) : ~(stmts[i].needs \subseteq StateAttrs)}
      first == IF bad = {} THEN Len(stmts) + 1
               ELSE CHOOSE i \in bad : \A j \in bad : i <= j
  IN [ok |-> bad = {},
      exc |-> IF bad = {} THEN "" ELSE "AttributeError",
      regs |-> {OscReg(stmts[i]) : i \in 1..(first - 1)}]

\* add_osc_getters: one receive_args_inline(getter_name, osc_getter) per
\* attribute, after int(v[0]) of the attribute's taichi type.  Whether int()
\* accepts a taichi DataType is the library's matter: intOk is either.
add_osc_getters(st, intOk) ==
  IF Len(st.dict) > 0 /\ ~intOk
    THEN [ok |-> FALSE, exc |-> "TypeError", regs |-> {}]
    ELSE [ok |-> TRUE, exc |-> "",
          regs |-> {[name |-> st.getter_name, handler |-> "osc_getter",
                     nidx |-> 2, attr |-> st.dict[j].k] : j \in 1..Len(st.dict)}]

\* osc_getter(i, j, attribute): ret = self.get((i, j), attribute), and a
\* reply (route, attribute, ret) to the sender unless ret is None.  State
\* has no attribute `get`: the first statement raises AttributeError.
State_osc_getter(st, i, j, attribute) ==
  IF "get" \notin StateAttrs
    THEN [ok |-> FALSE, exc |-> "AttributeError", st |-> st, ret |-> <<>>, sent |-> <<>>]
    ELSE [ok |-> TRUE, exc |-> "", st |-> to_nddict(st),
          ret |-> <<st.field[attribute][i + 1]>>,
          sent |-> <<[route |-> st.getter_name, attr |-> attribute,
                      ret |-> st.field[attribute][i + 1]]>>]

\* setup_osc_mapping: setters first, then getters.
setup_osc_mapping(st, intOk) ==
  LET s == IF st.osc_set THEN add_osc_setters(st)
           ELSE [ok |-> TRUE, exc |-> "", regs |-> {}]
      g == IF s.ok /\ st.osc_get THEN add_osc_getters(st, intOk)
           ELSE [ok |-> TRUE, exc |-> "", regs |-> {}]
  IN [ok |-> s.ok /\ g.ok,
      exc |-> IF ~s.ok THEN s.exc ELSE g.exc,
      regs |-> s.regs \cup g.regs]

\* setup_accessors(iml, osc): what it registers with the two layers.
setup_accessors(tvo, st, imlEnabled, oscEnabled, intOk) ==
  LET imlAdd == IF tvo.iml /\ imlEnabled THEN setup_iml_mapping(st) ELSE {}
      o == IF tvo.osc /\ oscEnabled THEN setup_osc_mapping(st, intOk)
           ELSE [ok |-> TRUE, exc |-> "", regs |-> {}]
  IN [ok |-> o.ok, exc |-> o.exc, imlAdd |-> imlAdd, oscAdd |-> o.regs]

NoState == [name |-> "", dict |-> <<>>, shape |-> 0, size |-> 0,
            field |-> <<>>, nddata |-> <<>>,
            iml_get |-> FALSE, iml_set |-> FALSE, osc_get |-> FALSE, osc_set |-> FALSE,
            setter_name |-> "", getter_name |-> "", simw |-> 0]

NoName == "None"

\* State.__init__(tolvera, name, state, shape, iml, osc, randomise):
\* kw is the declaration, rnd the draw of nddict.randomise().
State_init(tvo, name, kw, rnd, intOk) ==
  LET Fail(e) == [ok |-> FALSE, exc |-> e, st |-> NoState, imlAdd |-> {}, oscAdd |-> {}]
      n == IF kw.shapeNone THEN 1 ELSE kw.shape
      i == handle_get_set(kw.iml)
      o == handle_get_set(kw.osc)
      st0 == [name |-> name, dict |-> kw.state, shape |-> n,
              size |-> ND_size(kw.state, n),
              field |-> ZeroField(kw.state, n), nddata |-> ZeroField(kw.state, n),
              iml_get |-> i.get, iml_set |-> i.set,
              osc_get |-> o.get, osc_set |-> o.set,
              setter_name |-> tvo.name_clean \o "_set_" \o name,
              getter_name |-> tvo.name_clean \o "_get_" \o name,
              simw |-> 0]
      st1 == IF kw.randomise THEN State_randomise(st0, rnd) ELSE st0
      acc == setup_accessors(tvo, st1, i.enabled, o.enabled, intOk)
  IN IF ~kw.hasState THEN Fail("TypeError")
     ELSE IF name = NoName THEN Fail("AssertionError")
     ELSE IF \E j \in 1..Len(kw.state) : TiNpTypeMap(kw.state[j].ty) = "None"
       THEN Fail("NotImplementedError")
     ELSE [ok |-> acc.ok, exc |-> acc.exc, st |-> IF acc.ok THEN st1 ELSE NoState,
           imlAdd |-> acc.imlAdd, oscAdd |-> acc.oscAdd]

\* The draws nddict.randomise() can make for a declaration.
Draws(kw) ==
  IF kw.hasState /\ kw.randomise
       /\ \A j \in 1..Len(kw.state) : TiNpTypeMap(kw.state[j].ty) # "None"
    THEN ND_randomise(kw.state, IF kw.shapeNone THEN 1 ELSE kw.shape)
    ELSE {<<>>}

(***************************************************************************)
(* State's vector codecs (state.py:260-294): each returns the State after  *)
(* the call, whether it raised, and what it returned.                      *)
(***************************************************************************)
Done(st, r) == [ok |-> r.ok, exc |-> r.exc,
                st |-> IF r.ok THEN from_nddict([st EXCEPT !.nddata = r.data]) ELSE st]

State_from_vec(st, vec) ==
  LET s == to_nddict(st)
  IN Done(s, ND_from_vec(s.dict, s.shape, s.nddata, vec))

\* Faulty variant: to_vec that reads the host mirror without syncing it first.
State_to_vec_NoSync(st) ==
  [st |-> st, ret |-> ND_to_vec(st.dict, st.shape, st.nddata)]

State_to_vec(st) ==
  LET s == to_nddict(st)
  IN [st |-> s, ret |-> ND_to_vec(s.dict, s.shape, s.nddata)]

\* Faulty variant: attr_from_vec that writes into the host mirror as it is.
State_attr_from_vec_NoSync(st, attr, vec) ==
  Done(st, ND_attr_from_vec(st.dict, st.shape, st.nddata, attr, vec))

State_attr_from_vec(st, attr, vec) ==
  LET s == to_nddict(st)
  IN Done(s, ND_attr_from_vec(s.dict, s.shape, s.nddata, attr, vec))

State_attr_to_vec(st, attr) ==
  LET s == to_nddict(st)
  IN [st |-> s, ret |-> ND_attr_to_vec(s.nddata, s.shape, attr)]

State_slice_from_vec(st, a, b, vec) ==
  LET s == to_nddict(st)
  IN Done(s, ND_slice_from_vec(s.dict, s.nddata, a, b, vec))

State_slice_to_vec(st, a, b) ==
  LET s == to_nddict(st)
  IN [st |-> s, ret |-> ND_slice_to_vec(s.dict, s.nddata, a, b)]

State_attr_slice_from_vec(st, attr, a, b, vec) ==
  LET s == to_nddict(st)
  IN Done(s, ND_attr_slice_from_vec(s.dict, s.nddata, attr, a, b, vec))

State_attr_slice_to_vec(st, attr, a, b) ==
  LET s == to_nddict(st)
  IN [st |-> s, ret |-> ND_attr_slice_to_vec(s.nddata, attr, a, b)]

(***************************************************************************)
(* StateDict (state.py:23-67), a dotdict: sd maps each name to what the    *)
(* dict holds under it: nothing, an int, a State, or another object (the   *)
(* tolvera context under 'tv').                                            *)
(***************************************************************************)
VARIABLES tv, sd, imlReg, oscReg, last
vars == <<tv, sd, imlReg, oscReg, last>>

BlockNames == {"a", "b"}
Names == BlockNames \cup {"size", "tv"}

Absent == [kind |-> "absent", val |-> 0, st |-> NoState]
IntEntry(n) == [kind |-> "int", val |-> n, st |-> NoState]
ObjEntry == [kind |-> "obj", val |-> 0, st |-> NoState]
StateEntry(st) == [kind |-> "state", val |-> 0, st |-> st]

\* `name in self`
InDict(s, name) == name \in DOMAIN s /\ s[name].kind # "absent"

\* The names that hold a State, and the sum of their sizes.
Blocks(s) == {nm \in DOMAIN s : s[nm].kind = "state"}
RECURSIVE SumSizes(_, _)
SumSizes(s, nms) ==
  IF nms = {} THEN 0
  ELSE LET nm == CHOOSE x \in nms : TRUE
       IN s[nm].st.size + SumSizes(s, nms \ {nm})

\* A declaration: the value handed to set().
Decl(form, state, shape, iml, osc, randomise) ==
  [form |-> form, val |-> 0, hasState |-> TRUE, state |-> state,
   shapeNone |-> FALSE, shape |-> shape, iml |-> iml, osc |-> osc,
   randomise |-> randomise]
IntValue(n) == [Decl("int", <<>>, 1, FlagNone, FlagNone, FALSE) EXCEPT !.val = n]
ObjValue == Decl("obj", <<>>, 1, FlagNone, FlagNone, FALSE)

\* self.size += self[name].size, after self[name] was stored: reads
\* self.size (dict.get) and assigns through __setattr__ -> set -> add.
AddSize(s, name) ==
  IF s["size"].kind = "int"
    THEN [ok |-> TRUE, exc |-> "",
          sd |-> [s EXCEPT !["size"] = IntEntry(s["size"].val + s[name].st.size)]]
    ELSE [ok |-> FALSE, exc |-> "TypeError", sd |-> s]

\* What add() or set() did: whether it raised, the dict after it, and what
\* the constructor registered with the two layers.
Res(ok, exc, s2, ia, oa) ==
  [ok |-> ok, exc |-> exc, sd |-> s2, imlAdd |-> ia, oscAdd |-> oa]

\* self[name] = State(...); self.size += self[name].size
\* where c is what the constructor did.
AddState(s, name, c) ==
  IF ~c.ok THEN Res(FALSE, c.exc, s, c.imlAdd, c.oscAdd)
  ELSE Res(AddSize([s EXCEPT ![name] = StateEntry(c.st)], name).ok,
           AddSize([s EXCEPT ![name] = StateEntry(c.st)], name).exc,
           AddSize([s EXCEPT ![name] = StateEntry(c.st)], name).sd,
           c.imlAdd, c.oscAdd)

\* add(name, kwargs)
StateDict_add(s, tvo, name, kw, rnd, intOk) ==
  IF name = "tv" /\ kw.form \notin {"dict", "tuple"}
    THEN Res(TRUE, "", [s EXCEPT !["tv"] = ObjEntry], {}, {})
  ELSE IF name = "size" /\ kw.form = "int"
    THEN Res(TRUE, "", [s EXCEPT !["size"] = IntEntry(kw.val)], {}, {})
  ELSE IF kw.form \in {"dict", "tuple"}
    THEN AddState(s, name, State_init(tvo, name, kw, rnd, intOk))
  ELSE Res(FALSE, "TypeError", s, {}, {})

\* set(name, kwargs)
StateDict_set(s, tvo, name, kw, rnd, intOk) ==
  IF InDict(s, name) /\ name # "size"
    THEN [ok |-> FALSE, exc |-> "ValueError", sd |-> s, imlAdd |-> {}, oscAdd |-> {}]
    ELSE StateDict_add(s, tvo, name, kw, rnd, intOk)

\* StateDict.__init__: self.tv = tolvera; self.size = 0
InitDict ==
  [nm \in Names |-> IF nm = "tv" THEN ObjEntry
                    ELSE IF nm = "size" THEN IntEntry(0) ELSE Absent]

\* last: the call made last, with its outcome (what the caller observes).
\*   iml, osc: the flags of a declaration; rnd: randomise() ran to its end;
\*   stale: the host mirror differed from the device field before the call;
\*   attr: the attribute addressed; mismatch: the vector's length was not the
\*   addressed region's size; states: the names handed to StateDict.from_vec;
\*   calls: the per-block from_vec calls it made; arg: the argument
\*   `states` as the caller wrote it; ret: the value returned, in a tuple;
\*   slice: the slice [a, b] (or the coordinate (i, j)) addressed;
\*   sent: the replies sent to the requesting peer; raised: the exception
\*   raised inside the operation; logs: the diagnostics printed, each
\*   [by, category]; tries: how often the step that raised was executed.
Call(op, name, ok, exc) ==
  [op |-> op, name |-> name, ok |-> ok, exc |-> exc,
   iml |-> FlagNone, osc |-> FlagNone, rnd |-> FALSE, stale |-> FALSE,
   attr |-> "", mismatch |-> FALSE, states |-> <<>>, calls |-> <<>>,
   arg |-> [kind |-> "list", str |-> "", list |-> <<>>], ret |-> <<>>,
   slice |-> <<0, 0>>, sent |-> <<>>, raised |-> "", logs |-> <<>>, tries |-> 0]
NoOp == Call("init", "", TRUE, "")

Init ==
  /\ tv \in [name_clean : {"tv"}, iml : BOOLEAN, osc : BOOLEAN]
  /\ sd = InitDict
  /\ imlReg = {}
  /\ oscReg = {}
  /\ last = NoOp

Flags == {FlagNone, FlagStr("get"), FlagStr("set"), FlagTuple(<<"get", "set">>)}

\* Values that are no declaration: ints, another object, a dict or a tuple
\* without the schema, a schema with a type TiNpTypeMap does not know.
BadValues ==
  {IntValue(n) : n \in 0..MaxInt}
  \cup {ObjValue}
  \cup {[Decl(form, <<>>, 1, FlagNone, FlagNone, TRUE) EXCEPT !.hasState = FALSE] :
          form \in {"dict", "tuple"}}
  \cup {Decl("dict", SchemaBad, 1, FlagNone, FlagNone, TRUE)}

\* The values callers hand to set() in the registry's specification.
SetValues ==
  {Decl(form, SchemaX, 1, FlagNone, FlagNone, FALSE) : form \in {"dict", "tuple"}}
  \cup {Decl("dict", SchemaXY, MaxShape, FlagNone, FlagNone, FALSE)}
  \cup {Decl("dict", SchemaX, 1, FlagStr("get"), FlagStr("set"), FALSE)}
  \cup BadValues

\* The declarations of the accessor specification: every pair of flags.
AccValues ==
  {Decl("dict", SchemaXY, 1, i, o, FALSE) : i \in Flags, o \in Flags}

\* The call sd.set(name, kw) did r.
SetDid(name, kw, r) ==
  /\ sd' = r.sd
  /\ imlReg' = imlReg \cup r.imlAdd
  /\ oscReg' = oscReg \cup r.oscAdd
  /\ last' = [Call("set", name, r.ok, r.exc) EXCEPT
                !.iml = kw.iml, !.osc = kw.osc,
                !.rnd = r.ok /\ kw.form \in {"dict", "tuple"} /\ kw.randomise]
  /\ UNCHANGED tv

\* sd.set(name, value), or sd.<name> = value
Set(name, kw) ==
  \E rnd \in Draws(kw), intOk \in BOOLEAN :
    SetDid(name, kw, StateDict_set(sd, tv, name, kw, rnd, intOk))

NextSet == \E name \in Names \cup {NoName}, kw \in SetValues : Set(name, kw)

SpecSet == Init /\ [][NextSet]_vars

NextAcc == \E name \in BlockNames, kw \in AccValues : Set(name, kw)

SpecAcc == Init /\ [][NextAcc]_vars

(***************************************************************************)
(* One block and its codecs: the block 'a' is declared, then simulation    *)
(* steps write the device field and callers use State's methods.           *)
(***************************************************************************)
\* The declarations the codec specification starts from.
VecDecls ==
  {Decl("dict", s, n, FlagNone, FlagNone, r) :
     s \in {SchemaX, SchemaXY}, n \in 1..MaxShape, r \in BOOLEAN}

\* The registry after StateDict.__init__ and sd.set(name, kw).
Declared(s, tvo, name, kw, rnd) == StateDict_set(s, tvo, name, kw, rnd, TRUE).sd

InitVec ==
  /\ tv = [name_clean |-> "tv", iml |-> FALSE, osc |-> FALSE]
  /\ \E kw \in VecDecls : \E rnd \in Draws(kw) :
       /\ sd = Declared(InitDict, tv, "a", kw, rnd)
       /\ last = [Call("set", "a", TRUE, "") EXCEPT !.rnd = kw.randomise]
  /\ imlReg = {}
  /\ oscReg = {}

\* Vectors handed to the write codecs: ramps c, c+1, ... of a given length.
Ramp(len, c) == [i \in 1..len |-> (c + i - 1) % (MaxVal + 1)]
\* Lengths tried for a region of length n: the right one and its neighbours.
Lens(n) == {len \in {n - 1, n, n + 1} : len >= 0}
Vecs(n) == {Ramp(len, c) : len \in Lens(n), c \in Val}

IsStale(st) == st.nddata # st.field

Put(nm, st) == sd' = [sd EXCEPT ![nm].st = st]

\* A simulation step (a kernel) writes one cell of the device field.
SimStep(nm) ==
  \E key \in Keys(sd[nm].st.dict), i \in 1..sd[nm].st.shape :
    \E v \in TyVals(AttrOf(sd[nm].st.dict, key).ty) :
      /\ sd[nm].st.simw < MaxSimWrites
      /\ v # sd[nm].st.field[key][i]
      /\ Put(nm, [sd[nm].st EXCEPT !.field[key][i] = v, !.simw = @ + 1])
      /\ last' = Call("sim", nm, TRUE, "")
      /\ UNCHANGED <<tv, imlReg, oscReg>>

\* s.randomise()
Randomise(nm) ==
  \E rnd \in ND_randomise(sd[nm].st.dict, sd[nm].st.shape) :
    /\ Put(nm, State_randomise(sd[nm].st, rnd))
    /\ last' = [Call("randomise", nm, TRUE, "") EXCEPT
                  !.rnd = TRUE, !.stale = IsStale(sd[nm].st)]
    /\ UNCHANGED <<tv, imlReg, oscReg>>

\* A write codec was called with a vector for a region of `region` scalars.
Wrote(op, nm, attr, r, vec, region) ==
  /\ Put(nm, r.st)
  /\ last' = [Call(op, nm, r.ok, r.exc) EXCEPT
                !.stale = IsStale(sd[nm].st), !.attr = attr,
                !.mismatch = (Len(vec) # region)]
  /\ UNCHANGED <<tv, imlReg, oscReg>>

\* s.from_vec(vec)
FromVec(nm) ==
  LET st == sd[nm].st
  IN \E vec \in Vecs(Len(st.dict) * st.shape) :
       Wrote("from_vec", nm, "", State_from_vec(st, vec), vec, Len(st.dict) * st.shape)

\* s.attr_from_vec(attr, vec)
AttrFromVec(nm) ==
  LET st == sd[nm].st
  IN \E attr \in Keys(st.dict) : \E vec \in Vecs(st.shape) :
       Wrote("attr_from_vec", nm, attr, State_attr_from_vec(st, attr, vec), vec, st.shape)

\* Slices [a:b] of the instances.
Slices(n) == {ab \in (0..n) \X (0..n) : ab[1] <= ab[2]}

\* s.slice_from_vec([a, b], vec)
SliceFromVec(nm) ==
  LET st == sd[nm].st
  IN \E ab \in Slices(st.shape) :
       \E vec \in Vecs(Len(st.dict) * (ab[2] - ab[1])) :
         Wrote("slice_from_vec", nm, "",
               State_slice_from_vec(st, ab[1], ab[2], vec), vec,
               Len(st.dict) * (ab[2] - ab[1]))

\* s.attr_slice_from_vec(attr, [a, b], vec)
AttrSliceFromVec(nm) ==
  LET st == sd[nm].st
  IN \E attr \in Keys(st.dict), ab \in Slices(st.shape) :
       \E vec \in Vecs(ab[2] - ab[1]) :
         Wrote("attr_slice_from_vec", nm, attr,
               State_attr_slice_from_vec(st, attr, ab[1], ab[2], vec), vec,
               ab[2] - ab[1])

\* s.from_vec(s.to_vec())
State_roundtrip(st) ==
  LET r == State_to_vec(st)
  IN State_from_vec(r.st, r.ret)
RoundTripVec(nm) ==
  LET st == sd[nm].st
  IN Wrote("from_vec(to_vec())", nm, "", State_roundtrip(st),
           State_to_vec(st).ret, Len(st.dict) * st.shape)

\* s.attr_from_vec(attr, s.attr_to_vec(attr))
State_attr_roundtrip(st, attr) ==
  LET r == State_attr_to_vec(st, attr)
  IN State_attr_from_vec(r.st, attr, r.ret)
RoundTripAttr(nm) ==
  LET st == sd[nm].st
  IN \E attr \in Keys(st.dict) :
       Wrote("attr_from_vec(attr_to_vec())", nm, attr, State_attr_roundtrip(st, attr),
             State_attr_to_vec(st, attr).ret, st.shape)

NextVec ==
  \/ \E nm \in Blocks(sd) : SimStep(nm)
  \/ \E nm \in Blocks(sd) : Randomise(nm)
  \/ \E nm \in Blocks(sd) : FromVec(nm)
  \/ \E nm \in Blocks(sd) : AttrFromVec(nm)
  \/ \E nm \in Blocks(sd) : SliceFromVec(nm)
  \/ \E nm \in Blocks(sd) : AttrSliceFromVec(nm)
  \/ \E nm \in Blocks(sd) : RoundTripVec(nm)
  \/ \E nm \in Blocks(sd) : RoundTripAttr(nm)

SpecVec == InitVec /\ [][NextVec]_vars

(***************************************************************************)
(* One block, its write codecs and its read codecs, interleaved with       *)
(* simulation steps; each call runs to its end before the next step.       *)
(***************************************************************************)
\* A read codec returned r.ret.
ReadDid(op, nm, attr, ab, r) ==
  /\ Put(nm, r.st)
  /\ last' = [Call(op, nm, TRUE, "") EXCEPT
                !.stale = IsStale(sd[nm].st), !.attr = attr, !.slice = ab,
                !.ret = <<r.ret>>]
  /\ UNCHANGED <<tv, imlReg, oscReg>>

\* s.to_vec()
ToVec(nm) == ReadDid("to_vec", nm, "", <<0, sd[nm].st.shape>>, State_to_vec(sd[nm].st))

\* s.attr_to_vec(attr)
AttrToVec(nm) ==
  \E attr \in Keys(sd[nm].st.dict) :
    ReadDid("attr_to_vec", nm, attr, <<0, sd[nm].st.shape>>,
            State_attr_to_vec(sd[nm].st, attr))

\* s.slice_to_vec([a, b])
SliceToVec(nm) ==
  \E ab \in Slices(sd[nm].st.shape) :
    ReadDid("slice_to_vec", nm, "", ab, State_slice_to_vec(sd[nm].st, ab[1], ab[2]))

\* s.attr_slice_to_vec(attr, [a, b])
AttrSliceToVec(nm) ==
  \E attr \in Keys(sd[nm].st.dict), ab \in Slices(sd[nm].st.shape) :
    ReadDid("attr_slice_to_vec", nm, attr, ab,
            State_attr_slice_to_vec(sd[nm].st, attr, ab[1], ab[2]))

\* s.osc_getter(i, j, attribute), as the routing layer calls it.
OscGetter(nm) ==
  \E attr \in Keys(sd[nm].st.dict), i \in 0..(sd[nm].st.shape - 1) :
    /\ Put(nm, State_osc_getter(sd[nm].st, i, 0, attr).st)
    /\ last' = [Call("osc_getter", nm, State_osc_getter(sd[nm].st, i, 0, attr).ok,
                     State_osc_getter(sd[nm].st, i, 0, attr).exc) EXCEPT
                  !.stale = IsStale(sd[nm].st), !.attr = attr, !.slice = <<i, 0>>,
                  !.ret = State_osc_getter(sd[nm].st, i, 0, attr).ret,
                  !.sent = State_osc_getter(sd[nm].st, i, 0, attr).sent]
    /\ UNCHANGED <<tv, imlReg, oscReg>>

NextSync ==
  \/ \E nm \in Blocks(sd) : SimStep(nm)
  \/ \E nm \in Blocks(sd) : FromVec(nm)
  \/ \E nm \in Blocks(sd) : AttrFromVec(nm)
  \/ \E nm \in Blocks(sd) : SliceFromVec(nm)
  \/ \E nm \in Blocks(sd) : AttrSliceFromVec(nm)
  \/ \E nm \in Blocks(sd) : ToVec(nm)
  \/ \E nm \in Blocks(sd) : AttrToVec(nm)
  \/ \E nm \in Blocks(sd) : SliceToVec(nm)
  \/ \E nm \in Blocks(sd) : AttrSliceToVec(nm)
  \/ \E nm \in Blocks(sd) : OscGetter(nm)

SpecSync == InitVec /\ [][NextSync]_vars

(***************************************************************************)
(* Errors: set(), from_nddict() and to_nddict() wrap their work in         *)
(* try / except TypeError / except ValueError / except Exception, print a  *)
(* diagnostic and re-raise.  lib is what the library call inside           *)
(* (nddict.get_data, field.from_numpy, field.to_numpy, nddict.set_data)    *)
(* does: "" when it returns, else the exception it raises.                 *)
(***************************************************************************)
Lib == {"", "TypeError", "ValueError", "RuntimeError"}

\* The except clause an exception lands in.
Category(e) == IF e \in {"TypeError", "ValueError"} THEN e ELSE "UnexpectedError"

Returned(st) ==
  [ok |-> TRUE, exc |-> "", raised |-> "", st |-> st, logs |-> <<>>, tries |-> 1]
Reraised(by, e, st) ==
  [ok |-> FALSE, exc |-> e, raised |-> e, st |-> st,
   logs |-> <<[by |-> by, category |-> Category(e)]>>, tries |-> 1]

\* Faulty variant: the except clause logs and returns.
from_nddict_try_Swallowed(st, lib) ==
  IF lib = "" THEN Returned(from_nddict(st))
  ELSE [Reraised("from_nddict", lib, st) EXCEPT !.ok = TRUE, !.exc = ""]

\* from_nddict(), the library call doing lib
from_nddict_try(st, lib) ==
  IF lib = "" THEN Returned(from_nddict(st)) ELSE Reraised("from_nddict", lib, st)

\* to_nddict(), the library call doing lib
to_nddict_try(st, lib) ==
  IF lib = "" THEN Returned(to_nddict(st)) ELSE Reraised("to_nddict", lib, st)

\* The constructor gets as far as randomise() -> from_nddict().
ReachesRandomise(name, kw) ==
  /\ kw.form \in {"dict", "tuple"} /\ kw.hasState /\ name # NoName
  /\ \A j \in 1..Len(kw.state) : TiNpTypeMap(kw.state[j].ty) # "None"
  /\ kw.randomise

\* set(name, kwargs) with its except clauses, where r is what add() does
\* when the library call returns, f what the constructor's from_nddict()
\* does.
StateDict_set_try(s, name, kw, r, f) ==
  IF InDict(s, name) /\ name # "size"
    THEN [ok |-> FALSE, exc |-> "ValueError", raised |-> "", sd |-> s,
          imlAdd |-> {}, oscAdd |-> {}, logs |-> <<>>, tries |-> 0]
  ELSE IF ReachesRandomise(name, kw) /\ ~f.ok
    THEN [ok |-> FALSE, exc |-> f.exc, raised |-> f.raised, sd |-> s,
          imlAdd |-> {}, oscAdd |-> {},
          logs |-> f.logs \o <<[by |-> "StateDict.set", category |-> Category(f.exc)]>>,
          tries |-> f.tries]
  ELSE IF ~r.ok
    THEN [ok |-> FALSE, exc |-> r.exc, raised |-> r.exc, sd |-> r.sd,
          imlAdd |-> r.imlAdd, oscAdd |-> r.oscAdd,
          logs |-> <<[by |-> "StateDict.set", category |-> Category(r.exc)]>>,
          tries |-> 1]
  ELSE [ok |-> TRUE, exc |-> "", raised |-> "", sd |-> r.sd,
        imlAdd |-> r.imlAdd, oscAdd |-> r.oscAdd, logs |-> <<>>, tries |-> 1]

\* The values handed to set() in the specification of errors.
ErrValues ==
  {Decl("dict", SchemaX, 1, FlagNone, FlagNone, r) : r \in BOOLEAN}
    \cup {Decl("dict", SchemaX, 1, FlagNone, FlagStr("set"), TRUE)}
    \cup {IntValue(0), Decl("dict", SchemaBad, 1, FlagNone, FlagNone, TRUE)}

\* The call sd.set(name, kw) did r.
SetTryDid(name, kw, r) ==
  /\ sd' = r.sd
  /\ imlReg' = imlReg \cup r.imlAdd
  /\ oscReg' = oscReg \cup r.oscAdd
  /\ last' = [Call("set", name, r.ok, r.exc) EXCEPT
                !.iml = kw.iml, !.osc = kw.osc, !.raised = r.raised,
                !.logs = r.logs, !.tries = r.tries]
  /\ UNCHANGED tv

\* sd.set(name, value)
SetTry ==
  \E name \in {"a", NoName}, kw \in ErrValues, lib \in Lib :
    \E rnd \in Draws(kw) :
      SetTryDid(name, kw,
                StateDict_set_try(sd, name, kw, StateDict_add(sd, tv, name, kw, rnd, FALSE),
                                  from_nddict_try(NoState, lib)))

\* s.from_nddict() or s.to_nddict() did r.
SyncDid(op, nm, r) ==
  /\ Put(nm, r.st)
  /\ last' = [Call(op, nm, r.ok, r.exc) EXCEPT
                !.stale = IsStale(sd[nm].st), !.raised = r.raised,
                !.logs = r.logs, !.tries = r.tries]
  /\ UNCHANGED <<tv, imlReg, oscReg>>

\* s.from_nddict()
FromNddict(nm) == \E lib \in Lib : SyncDid("from_nddict", nm, from_nddict_try(sd[nm].st, lib))
\* s.to_nddict()
ToNddict(nm) == \E lib \in Lib : SyncDid("to_nddict", nm, to_nddict_try(sd[nm].st, lib))

NextErr ==
  \/ SetTry
  \/ \E nm \in Blocks(sd) : SimStep(nm)
  \/ \E nm \in Blocks(sd) : FromNddict(nm)
  \/ \E nm \in Blocks(sd) : ToNddict(nm)

SpecErr == Init /\ [][NextErr]_vars

(***************************************************************************)
(* StateDict.from_vec over two declared blocks: 'a' (x, y; 2 scalars) and  *)
(* 'b' (x; 1 scalar).                                                      *)
(***************************************************************************)
\* self.tv.s[state].size for each state, or the exception of the first
\* lookup that fails (KeyError: no such key; AttributeError: an int or the
\* context has no .size).
LookupExc(s, states) ==
  LET bad == {k \in 1..Len(states) :
                ~(states[k] \in DOMAIN s /\ s[states[k]].kind = "state")}
      first == CHOOSE k \in bad : \A j \in bad : k <= j
  IN IF bad = {} THEN ""
     ELSE IF InDict(s, states[first]) THEN "AttributeError" ELSE "KeyError"

\* The argument `states`: a str or a list of str.
StrArg(n) == [kind |-> "str", str |-> n, list |-> <<>>]
ListArg(l) == [kind |-> "list", str |-> "", list |-> l]

\* The characters of a name, as iterating a Python str yields them.
Chars(n) ==
  CASE n = "a" -> <<"a">>
    [] n = "b" -> <<"b">>
    [] n = "c" -> <<"c">>
    [] n = "ab" -> <<"a", "b">>

\* if isinstance(states, str): states = [states]
WrapStr(arg) == IF arg.kind = "str" THEN <<arg.str>> ELSE arg.list
\* `for state in states`: the items of a list, the characters of a str.
IterNames(arg) == IF arg.kind = "str" THEN Chars(arg.str) ELSE arg.list

\* get_size(states), states a list of names
StateDict_get_size(s, states) ==
  SumSeq([k \in 1..Len(states) |-> s[states[k]].st.size])

\* Faulty variant: get_size that does not wrap a str.
StateDict_get_size_arg_NoWrap(s, arg) ==
  IF LookupExc(s, IterNames(arg)) # ""
    THEN [ok |-> FALSE, exc |-> LookupExc(s, IterNames(arg)), ret |-> <<>>]
    ELSE [ok |-> TRUE, exc |-> "", ret |-> <<StateDict_get_size(s, IterNames(arg))>>]

\* get_size(states), states a str or a list: what it returns or raises.
StateDict_get_size_arg(s, arg) ==
  IF LookupExc(s, WrapStr(arg)) # ""
    THEN [ok |-> FALSE, exc |-> LookupExc(s, WrapStr(arg)), ret |-> <<>>]
    ELSE [ok |-> TRUE, exc |-> "", ret |-> <<StateDict_get_size(s, WrapStr(arg))>>]

\* The loop of from_vec from block k on, vec_start scalars consumed:
\* the dict afterwards, whether a per-block from_vec raised, and the calls
\* s.from_vec(vec) made, each [state, start, vec].
RECURSIVE FromVecLoop(_, _, _, _, _)
FromVecLoop(s, states, vector, k, vec_start) ==
  IF k > Len(states) THEN [ok |-> TRUE, exc |-> "", sd |-> s, calls |-> <<>>]
  ELSE IF LookupExc(s, <<states[k]>>) # ""
    THEN [ok |-> FALSE, exc |-> LookupExc(s, <<states[k]>>), sd |-> s, calls |-> <<>>]
  ELSE LET st == s[states[k]].st
           vec == PySlice(vector, vec_start, vec_start + st.size)
           r == State_from_vec(st, vec)
           s1 == [s EXCEPT ![states[k]].st = r.st]
           call == [state |-> states[k], start |-> vec_start, vec |-> vec]
       IN IF ~r.ok THEN [ok |-> FALSE, exc |-> r.exc, sd |-> s1, calls |-> <<call>>]
          ELSE LET rest == FromVecLoop(s1, states, vector, k + 1, vec_start + st.size)
               IN [rest EXCEPT !.calls = <<call>> \o @]

\* Faulty variant: from_vec without its length check.
StateDict_from_vec_NoCheck(s, states, vector) ==
  IF LookupExc(s, states) # ""
    THEN [ok |-> FALSE, exc |-> LookupExc(s, states), sd |-> s, calls |-> <<>>]
  ELSE FromVecLoop(s, states, vector, 1, 0)

\* from_vec(states, vector), states a str or a list: get_size(states),
\* the assert, then the loop over `states` as it was passed.
StateDict_from_vec_arg(s, arg, vector) ==
  IF ~StateDict_get_size_arg(s, arg).ok
    THEN [ok |-> FALSE, exc |-> StateDict_get_size_arg(s, arg).exc, sd |-> s,
          calls |-> <<>>]
  ELSE IF StateDict_get_size_arg(s, arg).ret[1] # Len(vector)
    THEN [ok |-> FALSE, exc |-> "AssertionError", sd |-> s, calls |-> <<>>]
  ELSE FromVecLoop(s, IterNames(arg), vector, 1, 0)

\* from_vec(states, vector), states a list of names
StateDict_from_vec(s, states, vector) ==
  StateDict_from_vec_arg(s, ListArg(states), vector)

\* Longest list of names handed to from_vec.
MaxNames == 2

RECURSIVE SeqsUpTo(_, _)
SeqsUpTo(S, n) ==
  IF n = 0 THEN {<<>>}
  ELSE SeqsUpTo(S, n - 1)
         \cup {Append(q, x) : q \in {p \in SeqsUpTo(S, n - 1) : Len(p) = n - 1}, x \in S}

\* Lists of names: declared blocks, with repetitions, and names that hold
\* no block ('c' is not declared, 'size' holds an int).
NameLists == SeqsUpTo({"a", "b"}, MaxNames) \cup {<<"a", "c">>, <<"size">>}

InitLoad ==
  /\ tv = [name_clean |-> "tv", iml |-> FALSE, osc |-> FALSE]
  /\ \E ra \in Draws(Decl("dict", SchemaXY, 1, FlagNone, FlagNone, TRUE)) :
       \E rb \in Draws(Decl("dict", SchemaX, 1, FlagNone, FlagNone, TRUE)) :
         sd = Declared(Declared(InitDict, tv, "a",
                                Decl("dict", SchemaXY, 1, FlagNone, FlagNone, TRUE), ra),
                       tv, "b", Decl("dict", SchemaX, 1, FlagNone, FlagNone, TRUE), rb)
  /\ last = [Call("set", "b", TRUE, "") EXCEPT !.rnd = TRUE]
  /\ imlReg = {}
  /\ oscReg = {}

AnyStale(s) == \E nm \in Blocks(s) : IsStale(s[nm].st)

\* The call sd.from_vec(states, vector) did r.
Loaded(op, states, vector, r) ==
  /\ sd' = r.sd
  /\ last' = [Call(op, "", r.ok, r.exc) EXCEPT
                !.stale = AnyStale(sd), !.states = states, !.calls = r.calls,
                !.mismatch = (LookupExc(sd, states) = ""
                              /\ SumSeq([k \in 1..Len(states) |->
                                           sd[states[k]].st.size]) # Len(vector))]
  /\ UNCHANGED <<tv, imlReg, oscReg>>

\* sd.from_vec(states, vector)
SdFromVec ==
  \E states \in NameLists :
    \E vector \in Vecs(SumSeq([k \in 1..Len(states) |->
                                 IF states[k] \in Blocks(sd)
                                   THEN sd[states[k]].st.size ELSE 0])) :
      Loaded("sd.from_vec", states, vector, StateDict_from_vec(sd, states, vector))

\* s.to_vec() of each named block in turn: the dict afterwards (every
\* to_vec syncs its block's host mirror) and the concatenation.
RECURSIVE ToVecs(_, _, _)
ToVecs(s, states, k) ==
  IF k > Len(states) THEN [sd |-> s, ret |-> <<>>]
  ELSE LET r == State_to_vec(s[states[k]].st)
           rest == ToVecs([s EXCEPT ![states[k]].st = r.st], states, k + 1)
       IN [rest EXCEPT !.ret = r.ret \o @]

\* sd.from_vec(states, s1.to_vec() + s2.to_vec() + ...)
SdRoundTrip ==
  \E states \in SeqsUpTo({"a", "b"}, MaxNames) :
    /\ states # <<>>
    /\ Loaded("sd.from_vec(to_vec()s)", states, ToVecs(sd, states, 1).ret,
              StateDict_from_vec(ToVecs(sd, states, 1).sd, states,
                                 ToVecs(sd, states, 1).ret))

NextLoad ==
  \/ \E nm \in Blocks(sd) : SimStep(nm)
  \/ SdFromVec
  \/ SdRoundTrip

SpecLoad == InitLoad /\ [][NextLoad]_vars

(***************************************************************************)
(* get_size and from_vec addressed by a str or by a list, over the blocks  *)
(* 'a' (x, y; 2 scalars), 'b' (x; 1 scalar) and 'ab' (x; MaxShape         *)
(* scalars).                                                               *)
(***************************************************************************)
AddrNames == Names \cup {"ab"}

\* The arguments callers pass for `states`.
AddrArgs ==
  {StrArg(n) : n \in {"a", "ab", "c"}}
    \cup {ListArg(l) : l \in {<<>>, <<"a">>, <<"ab">>, <<"size">>,
                               <<"a", "b">>, <<"b", "a">>, <<"a", "c">>}}

InitAddr ==
  /\ tv = [name_clean |-> "tv", iml |-> FALSE, osc |-> FALSE]
  /\ sd = Declared(
            Declared(
              Declared([nm \in AddrNames |->
                          IF nm \in Names THEN InitDict[nm] ELSE Absent],
                       tv, "a", Decl("dict", SchemaXY, 1, FlagNone, FlagNone, FALSE), <<>>),
              tv, "b", Decl("dict", SchemaX, 1, FlagNone, FlagNone, FALSE), <<>>),
            tv, "ab", Decl("dict", SchemaX, MaxShape, FlagNone, FlagNone, FALSE), <<>>)
  /\ last = Call("set", "ab", TRUE, "")
  /\ imlReg = {}
  /\ oscReg = {}

\* sd.get_size(states)
GetSize ==
  \E arg \in AddrArgs :
    /\ last' = [Call("sd.get_size", "", StateDict_get_size_arg(sd, arg).ok,
                     StateDict_get_size_arg(sd, arg).exc) EXCEPT
                  !.arg = arg, !.ret = StateDict_get_size_arg(sd, arg).ret]
    /\ UNCHANGED <<tv, sd, imlReg, oscReg>>

\* The call sd.from_vec(states, vector) did r.
AddrLoaded(arg, vector, r) ==
  /\ sd' = r.sd
  /\ last' = [Call("sd.from_vec", "", r.ok, r.exc) EXCEPT
                !.arg = arg, !.calls = r.calls, !.stale = AnyStale(sd),
                !.mismatch = (LookupExc(sd, WrapStr(arg)) = ""
                              /\ SumSeq([k \in 1..Len(WrapStr(arg)) |->
                                           sd[WrapStr(arg)[k]].st.size]) # Len(vector))]
  /\ UNCHANGED <<tv, imlReg, oscReg>>

\* sd.from_vec(states, vector), with a vector as long as get_size(states)
\* says or one longer.
AddrFromVec ==
  \E arg \in AddrArgs :
    \E len \in {SumSeq([k \in 1..Len(WrapStr(arg)) |->
                          IF WrapStr(arg)[k] \in Blocks(sd)
                            THEN sd[WrapStr(arg)[k]].st.size ELSE 0]) + d : d \in {0, 1}} :
      \E c \in {0, 1} :
        AddrLoaded(arg, Ramp(len, c), StateDict_from_vec_arg(sd, arg, Ramp(len, c)))

NextAddr ==
  \/ GetSize
  \/ AddrFromVec

SpecAddr == InitAddr /\ [][NextAddr]_vars

(***************************************************************************)
(* The registry's claims.                                                  *)
(***************************************************************************)

\* C1: StateDict.size equals the sum of State.size over the State blocks
\* stored in the registry, in every state that set() calls can reach.
C1_Ledger ==
  /\ sd["size"].kind = "int"
  /\ sd["size"].val = SumSizes(sd, Blocks(sd))

\* C2: set(name, spec) with a name that already holds a block fails with
\* ValueError, leaves the registry (its size and the block stored under the
\* name) as it was, and constructs no second State (nothing is registered).
C2_DuplicateRejected ==
  [][(last'.op = "set" /\ last'.name \in Names /\ sd[last'.name].kind = "state")
       => /\ ~last'.ok /\ last'.exc = "ValueError"
          /\ sd' = sd /\ imlReg' = imlReg /\ oscReg' = oscReg]_vars

\* C3: whenever set(name, spec) raises, the registry's mapping and size are
\* what they were before the call and no accessor of the failed block stays
\* registered with the mapping layer or the routing layer.
C3_AllOrNothing ==
  [][(last'.op = "set" /\ ~last'.ok)
       => (sd' = sd /\ imlReg' = imlReg /\ oscReg' = oscReg)]_vars

\* 'get' / 'set' is in the flag as the caller gave it.
InFlag(w, flag) == \E i \in 1..Len(flag.items) : flag.items[i] = w

\* C10: after a State was constructed under a fresh name with flags iml and
\* osc (both layers present), the mapping layer holds its getter (setter)
\* iff 'get' ('set') is in iml, and the routing layer holds a get (set)
\* handler of the block iff 'get' ('set') is in osc.
C10_Firewall ==
  [][(/\ last'.op = "set" /\ last'.name \in BlockNames
      /\ ~InDict(sd, last'.name) /\ tv.iml /\ tv.osc
      /\ ~(\E nm \in imlReg : nm \in {"tv_get_" \o last'.name, "tv_set_" \o last'.name}))
       => LET g == tv.name_clean \o "_get_" \o last'.name
              s == tv.name_clean \o "_set_" \o last'.name
          IN /\ (g \in imlReg') <=> InFlag("get", last'.iml)
             /\ (s \in imlReg') <=> InFlag("set", last'.iml)
             /\ (\E r \in oscReg' : r.name = g) <=> InFlag("get", last'.osc)
             /\ (\E r \in oscReg' : r.name = s \o "_all") <=> InFlag("set", last'.osc)]_vars

(***************************************************************************)
(* The claims about vectors.                                               *)
(***************************************************************************)
SameDevice(s1, s2) == \A nm \in Blocks(s1) : s2[nm].st.field = s1[nm].st.field
SameHost(s1, s2) == \A nm \in Blocks(s1) : s2[nm].st.nddata = s1[nm].st.nddata

\* C4: StateDict.from_vec(states, vector) with len(vector) different from
\* the sum of the named blocks' sizes fails and has modified no block's
\* host mirror or device field, for every list of names.
C4_LengthCheckedFirst ==
  [][(last'.op = "sd.from_vec" /\ last'.mismatch)
       => (~last'.ok /\ SameDevice(sd, sd') /\ SameHost(sd, sd'))]_vars

\* C4's case: a mismatching vector for a list with a repeated name was
\* refused while a host mirror was stale.
C4_Witness ==
  /\ last.op = "sd.from_vec" /\ last.mismatch /\ ~last.ok /\ last.stale
  /\ last.states = <<"a", "a">>

\* The scalars before chunk k.
Offset(s, states, k) == SumSeq([j \in 1..(k - 1) |-> s[states[j]].st.size])

\* C5: from_vec(states, to_vec() of each named block, concatenated) leaves
\* every block's to_vec() as it was; and every successful from_vec hands
\* chunk k to block k, the chunks contiguous, each as long as its block.
C5_RoundTrip ==
  [][/\ last'.op = "sd.from_vec(to_vec()s)"
          => /\ last'.ok
             /\ \A nm \in Blocks(sd) :
                  State_to_vec(sd'[nm].st).ret = State_to_vec(sd[nm].st).ret
             /\ \A k \in 1..Len(last'.states) :
                  last'.calls[k].vec = State_to_vec(sd[last'.states[k]].st).ret
     /\ (last'.op \in {"sd.from_vec", "sd.from_vec(to_vec()s)"} /\ last'.ok)
          => /\ Len(last'.calls) = Len(last'.states)
             /\ \A k \in 1..Len(last'.states) :
                  /\ last'.calls[k].state = last'.states[k]
                  /\ last'.calls[k].start = Offset(sd, last'.states, k)
                  /\ Len(last'.calls[k].vec) = sd[last'.states[k]].st.size]_vars

\* C5's case: a round trip over two different blocks, a host mirror stale.
C5_Witness ==
  /\ last.op = "sd.from_vec(to_vec()s)" /\ last.ok /\ last.stale
  /\ last.states = <<"a", "b">>

WriteOps == {"from_vec", "attr_from_vec", "slice_from_vec", "attr_slice_from_vec"}

C7_VecRoundTrip ==
  [][last'.op = "from_vec(to_vec())"
       => /\ last'.ok /\ SameDevice(sd, sd')
          /\ \A nm \in Blocks(sd) :
               State_roundtrip(sd'[nm].st).st = sd'[nm].st]_vars

\* C7's case: the round trip ran on a block whose host mirror was stale.
C7_Witness ==
  /\ last.op = "from_vec(to_vec())" /\ last.ok /\ last.stale
  /\ Len(sd[last.name].st.dict) = 2

\* C8: attr_from_vec(attr, vec) leaves the device values of every other
\* attribute as they were, stale host mirror or not, and
\* attr_from_vec(attr, attr_to_vec(attr)) leaves the whole device field.
C8_AttrFrame ==
  [][/\ last'.op \in {"attr_from_vec", "attr_from_vec(attr_to_vec())"}
          => \A nm \in Blocks(sd) : \A key \in Keys(sd[nm].st.dict) \ {last'.attr} :
               sd'[nm].st.field[key] = sd[nm].st.field[key]
     /\ last'.op = "attr_from_vec(attr_to_vec())"
          => (last'.ok /\ SameDevice(sd, sd'))]_vars

\* C8's case: attr_from_vec wrote one of two attributes while the host
\* mirror was stale.
C8_Witness ==
  /\ last.op = "attr_from_vec" /\ last.ok /\ last.stale
  /\ Len(sd[last.name].st.dict) = 2

\* C9: after randomise() ran (in the constructor or later), the device
\* field equals the host mirror and every value lies in its attribute's
\* [min, max].
C9_RandomiseInBounds ==
  last.rnd =>
    LET st == sd[last.name].st
    IN /\ st.field = st.nddata
       /\ \A j \in 1..Len(st.dict) : \A i \in 1..st.shape :
            /\ st.field[st.dict[j].k][i] >= st.dict[j].min
            /\ st.field[st.dict[j].k][i] <= st.dict[j].max

\* C9's case: a later randomise() on a block whose device field had been
\* written since the last sync.
C9_Witness ==
  /\ last.op = "randomise" /\ last.rnd /\ last.stale
  /\ Len(sd[last.name].st.dict) = 2

(***************************************************************************)
(* The claims about addressing.                                            *)
(***************************************************************************)
\* The names the caller addressed: the name itself for a str.
Addressed(arg) == IF arg.kind = "str" THEN <<arg.str>> ELSE arg.list
AllBlocks(s, names) == \A k \in 1..Len(names) : names[k] \in Blocks(s)

\* C11: get_size(names) returns the sum of the named blocks' sizes, the
\* same for 'n' and ['n'], fails if a name is no declared block, and
\* changes neither the registry nor a block.
C11_GetSize ==
  [][last'.op = "sd.get_size"
       => /\ sd' = sd
          /\ IF AllBlocks(sd, Addressed(last'.arg))
               THEN /\ last'.ok
                    /\ last'.ret = <<SumSeq([k \in 1..Len(Addressed(last'.arg)) |->
                                              sd[Addressed(last'.arg)[k]].st.size])>>
               ELSE ~last'.ok
          /\ last'.arg.kind = "str"
               => /\ last'.ok = StateDict_get_size_arg(sd, ListArg(<<last'.arg.str>>)).ok
                  /\ last'.ret = StateDict_get_size_arg(sd, ListArg(<<last'.arg.str>>)).ret]_vars

\* C11's case: get_size('ab') returned the size of the block 'ab', which is
\* not the sum of the sizes of 'a' and 'b'.
C11_Witness ==
  /\ last.op = "sd.get_size" /\ last.ok /\ last.arg = StrArg("ab")
  /\ last.ret = <<sd["ab"].st.size>>
  /\ sd["ab"].st.size # sd["a"].st.size + sd["b"].st.size

(***************************************************************************)
(* The claims about syncing.                                               *)
(***************************************************************************)
ReadOps == {"to_vec", "attr_to_vec", "slice_to_vec", "attr_slice_to_vec"}

\* The device values a read addresses: the attributes' columns in schema
\* order (one column for an attribute read), instances a+1..b of each.
DeviceRegion(st, attr, a, b) ==
  LET cols == IF attr = "" THEN [j \in 1..Len(st.dict) |-> st.dict[j].k] ELSE <<attr>>
  IN [p \in 1..(Len(cols) * (b - a)) |->
        st.field[cols[((p - 1) \div (b - a)) + 1]][a + ((p - 1) % (b - a)) + 1]]

\* C12: every read codec returns the values the device field holds when it
\* is called, and after every write codec that succeeded the device field
\* equals the host mirror, whatever simulation steps came in between.
C12_SyncDiscipline ==
  [][/\ last'.op \in ReadOps
          => /\ last'.ok
             /\ last'.ret = <<DeviceRegion(sd[last'.name].st, last'.attr,
                                           last'.slice[1], last'.slice[2])>>
             /\ sd'[last'.name].st.field = sd[last'.name].st.field
     /\ (last'.op \in WriteOps /\ last'.ok)
          => sd'[last'.name].st.field = sd'[last'.name].st.nddata]_vars

\* C12's case: a read of a block of two attributes returned values while
\* the host mirror was stale.
C12_Witness ==
  /\ last.op = "slice_to_vec" /\ last.stale /\ last.ret # <<<<>>>>
  /\ Len(sd[last.name].st.dict) = 2

(***************************************************************************)
(* The claims about the routing layer.                                     *)
(***************************************************************************)
\* The setter handlers of a block: <setter>_randomise, the four positional
\* writers and the four writers of every attribute, each [name, nidx].
ExpectedSetters(setter, dict) ==
  {<<setter \o "_randomise", 0>>, <<setter \o "_idx", 2>>, <<setter \o "_row", 1>>,
   <<setter \o "_col", 1>>, <<setter \o "_all", 0>>}
    \cup UNION {{<<setter \o "_" \o key \o "_idx", 2>>, <<setter \o "_" \o key \o "_row", 1>>,
                 <<setter \o "_" \o key \o "_col", 1>>, <<setter \o "_" \o key \o "_all", 0>>} :
                  key \in Keys(dict)}

\* C13: with the routing layer enabled and 'set' in the osc flag, the
\* declaration of a new block succeeds and registers exactly the block's
\* setter handlers.
C13_OscSetters ==
  [][(/\ last'.op = "set" /\ last'.name \in BlockNames /\ ~InDict(sd, last'.name)
      /\ tv.osc /\ InFlag("set", last'.osc))
       => /\ last'.ok
          /\ {<<r.name, r.nidx>> : r \in {x \in oscReg' \ oscReg : x.handler # "osc_getter"}}
               = ExpectedSetters(tv.name_clean \o "_set_" \o last'.name,
                                 sd'[last'.name].st.dict)]_vars

\* C14: osc_getter(i, j, attribute) runs to its end, returns the device
\* field's value of the attribute at the coordinate, and sends exactly one
\* reply, on the route of the block's getter name.
C14_OscGetter ==
  [][last'.op = "osc_getter"
       => /\ last'.ok
          /\ last'.ret = <<sd[last'.name].st.field[last'.attr][last'.slice[1] + 1]>>
          /\ Len(last'.sent) = 1
          /\ last'.sent[1].attr = last'.attr
          /\ last'.sent[1].ret = last'.ret[1]]_vars

C17_AddressingAgreement ==
  [][(/\ last'.op = "sd.from_vec" /\ last'.arg \in AddrArgs
      /\ AllBlocks(sd, Addressed(last'.arg)) /\ ~last'.mismatch)
       => /\ last'.ok
          /\ [k \in 1..Len(last'.calls) |-> last'.calls[k].state] = Addressed(last'.arg)
          /\ \A nm \in Blocks(sd) :
               (\A k \in 1..Len(Addressed(last'.arg)) : Addressed(last'.arg)[k] # nm)
                 => sd'[nm] = sd[nm]]_vars

====
